---- MODULE Spec2Model ----
(***************************************************************************)
(* ExpressionPipeline (rna_seq_factornet/pipeline/core.py) as a state      *)
(* machine: the pipeline object in use with its data, model and            *)
(* interpreter attributes, one saved-pipeline path on disk with the        *)
(* answers of the pipeline that saved it, and one action per public        *)
(* method.  ExpressionFactorNet, InterpretationMethods and the data loader *)
(* are imported by core.py from modules whose source is not available;     *)
(* they are modelled from the design document (sections 4.1 - 4.3, 7).     *)
(* The network itself is replaced by a one-weight linear stand-in          *)
(* yhat(x) = w * sum(x): freshly initialised parameters have w = 0 and no  *)
(* optimiser pass, a training run leaves any weight of Weights.            *)
(***************************************************************************)
EXTENDS Integers, Sequences, FiniteSets, TLC

VARIABLES data, model, interpreter, saved, saver, nextId, everTrained, everLoaded, last

vars == <<data, model, interpreter, saved, saver, nextId, everTrained, everLoaded, last>>

(***************************************************************************)
(* Bounds of the exploration.                                              *)
(***************************************************************************)
MaxModels == 2      \* ExpressionFactorNet objects constructed in one run
MaxK == 3           \* largest k_folds a caller passes
MaxG == 3           \* largest n_genes a caller passes to interpret

(***************************************************************************)
(* Python values.                                                          *)
(***************************************************************************)
None == [none |-> TRUE]

EmptyDict == [k \in {} |-> 0]

\* an optional sequence argument: left at its default None, or passed
NotGiven == [given |-> FALSE, value |-> <<>>]

Given(v) == [given |-> TRUE, value |-> v]

Min(a, b) == IF a <= b THEN a ELSE b

Max(a, b) == IF a >= b THEN a ELSE b

Abs(a) == IF a >= 0 THEN a ELSE 0 - a

DictUpdate_defaultsWin(d, u) ==
    [k \in (DOMAIN d) \cup (DOMAIN u) |-> IF k \in DOMAIN d THEN d[k] ELSE u[k]]

\* d.update(u): the keys of u override those of d
DictUpdate(d, u) ==
    [k \in (DOMAIN d) \cup (DOMAIN u) |-> IF k \in DOMAIN u THEN u[k] ELSE d[k]]

\* {k: v for k, v in d.items() if k in keys}
DictFilter(d, keys) == [k \in (DOMAIN d) \cap keys |-> d[k]]

\* d.get(k, dflt)
DictGet(d, k, dflt) == IF k \in DOMAIN d THEN d[k] ELSE dflt

SliceTo_inclusive(s, n) == SubSeq(s, 1, Min(n + 1, Len(s)))

\* s[:n] with Python's meaning of a negative n
SliceTo(s, n) ==
    IF n >= 0 THEN SubSeq(s, 1, Min(n, Len(s)))
    ELSE SubSeq(s, 1, Max(Len(s) + n, 0))

RECURSIVE SumSeq(_)
SumSeq(s) == IF s = <<>> THEN 0 ELSE Head(s) + SumSeq(Tail(s))

Range(s) == {s[i] : i \in DOMAIN s}

(***************************************************************************)
(* The files a caller can name and what the loader makes of them: the dict *)
(* returned by preprocess_for_factornet, with the keys core.py reads.      *)
(***************************************************************************)
Dataset(genes, samples, X, y) ==
    [gene_names |-> genes, sample_names |-> samples,
     expression_features |-> X, expression_targets |-> y,
     preprocessing_params |-> [n_features |-> Len(samples)]]

DataFiles ==
    [small |-> Dataset(<<"g1", "g2">>, <<"s1", "s2">>,
                       << <<1, 0>>, <<0, 2>> >>, <<1, 2>>),
     tall  |-> Dataset(<<"g1", "g2", "g3", "g4">>, <<"s1", "s2", "s3">>,
                       << <<1, 0, 1>>, <<0, 2, 0>>, <<0, 1, 0>>, <<2, 1, 1>> >>,
                       <<1, 2, 1, 3>>)]

MissingFile == "missing"

FilePaths == (DOMAIN DataFiles) \cup {MissingFile}

NGenes(d) == Len(d.gene_names)

NFeatures(d) == d.preprocessing_params.n_features

(***************************************************************************)
(* Exceptions: a call's outcome is "ok" or the name of the exception it    *)
(* raises.                                                                 *)
(***************************************************************************)
OK == "ok"

ValueError == "ValueError"

ConfigurationError == "ConfigurationError"

DataError == "DataError"

ModelNotTrainedError == "ModelNotTrainedError"

FileNotFoundError == "FileNotFoundError"

(***************************************************************************)
(* Floats that must stay exact are kept as fractions num/den, den > 0, in  *)
(* lowest terms; finite = FALSE stands for NaN or an infinity.             *)
(***************************************************************************)
RECURSIVE GCD(_, _)
GCD(a, b) == IF b = 0 THEN a ELSE GCD(b, a % b)

Frac(n, d) ==
    LET g == GCD(Abs(n), d)
    IN  [finite |-> TRUE, num |-> n \div g, den |-> d \div g]

NotFinite == [finite |-> FALSE, num |-> 0, den |-> 1]

Zero == Frac(0, 1)

FracAdd(a, b) ==
    IF a.finite /\ b.finite THEN Frac(a.num * b.den + b.num * a.den, a.den * b.den)
    ELSE NotFinite

FracSub(a, b) ==
    IF a.finite /\ b.finite THEN Frac(a.num * b.den - b.num * a.den, a.den * b.den)
    ELSE NotFinite

FracMul(a, b) ==
    IF a.finite /\ b.finite THEN Frac(a.num * b.num, a.den * b.den) ELSE NotFinite

FracDivInt(a, k) == IF a.finite THEN Frac(a.num, a.den * k) ELSE NotFinite

RECURSIVE FracSum(_)
FracSum(s) == IF s = <<>> THEN Zero ELSE FracAdd(Head(s), FracSum(Tail(s)))

FracMean(s) == FracDivInt(FracSum(s), Len(s))

\* the population variance; the standard deviation is kept as its square
FracVar(s) ==
    LET m == FracMean(s)
        d == [i \in DOMAIN s |-> FracMul(FracSub(s[i], m), FracSub(s[i], m))]
    IN  FracMean(d)

(***************************************************************************)
(* ExpressionFactorNet (models/factornet.py), from section 4.1.            *)
(***************************************************************************)
Weights == {0 - 1, 1}

\* ModelParameters as created at construction: no optimiser pass yet
FreshParameters == [w |-> 0, updates |-> 0]

\* ExpressionFactorNet(n_features=..., **kwargs)
ExpressionFactorNet(id, n_features, kwargs) ==
    [id |-> id, n_features |-> n_features, hyper |-> kwargs,
     params |-> FreshParameters]

\* the forward pass on one row
Forward(p, x) == p.w * SumSeq(x)

\* the preconditions model.predict(X) can reject; their order is not fixed
PredictErrors(m, X) ==
    {ModelNotTrainedError : e \in IF m.params.updates = 0 THEN {1} ELSE {}}
    \cup {ConfigurationError : i \in {j \in DOMAIN X : Len(X[j]) # m.n_features}}
    \cup {DataError : e \in IF X = <<>> THEN {1} ELSE {}}

\* model.predict(X): one scalar per row
ModelPredict(m, X) == [i \in DOMAIN X |-> Forward(m.params, X[i])]

\* `epochs` passes of gradient descent from p, ending at weight w
TrainParameters(p, w, epochs) == [w |-> w, updates |-> p.updates + epochs]

\* sum of squared residuals of predictions yhat against targets y
SSres(y, yhat) == SumSeq([i \in DOMAIN y |-> (y[i] - yhat[i]) * (y[i] - yhat[i])])

\* Len(y) * SS_tot, an integer that is 0 exactly when SS_tot is
SStot(y) == Len(y) * SumSeq([i \in DOMAIN y |-> y[i] * y[i]]) - SumSeq(y) * SumSeq(y)

R2_unguarded(y, yhat) ==
    IF SStot(y) = 0 THEN NotFinite
    ELSE Frac(SStot(y) - Len(y) * SSres(y, yhat), SStot(y))

\* R2 = 1 - SS_res / SS_tot, and 0.0 when SS_tot == 0
R2(y, yhat) ==
    IF SStot(y) = 0 THEN Zero
    ELSE Frac(SStot(y) - Len(y) * SSres(y, yhat), SStot(y))

\* model.train(X, y, epochs, batch_size): the final training loss
TrainLoss(p, X, y) == SSres(y, [i \in DOMAIN X |-> Forward(p, X[i])])

(***************************************************************************)
(* The k-fold harness of train_with_cv, from section 4.2.                  *)
(***************************************************************************)
NoSeed == 0

MaxSeed == 2        \* largest shuffle seed drawn

Seeds == NoSeed .. MaxSeed

\* the seeded shuffle of gene positions 1..n: a rotation by seed \div 2,
\* reversed when the seed is odd; NoSeed leaves the order alone
Shuffle(seed, n) ==
    [i \in 1 .. n |->
        IF seed % 2 = 0 THEN ((i - 1 + seed \div 2) % n) + 1
        ELSE ((n - i + seed \div 2) % n) + 1]

FoldOf_off(i, n, k) == (i - 1) % (k + 1)

\* the fold of the gene at (shuffled) position i, positions counted from 1
FoldOf(i, n, k) == (i - 1) % k

\* the validation genes of fold f, in shuffled order
ValidationOf(f, order, k) ==
    SelectSeq(order, LAMBDA g :
        \E i \in DOMAIN order : order[i] = g /\ FoldOf(i, Len(order), k) = f)

\* the training genes of fold f: all remaining genes
TrainingOf(f, order, k) ==
    SelectSeq(order, LAMBDA g :
        \E i \in DOMAIN order : order[i] = g /\ FoldOf(i, Len(order), k) # f)

Rows(M, idx) == [i \in DOMAIN idx |-> M[idx[i]]]

InitFold_carry(prev) == prev

\* the parameters a fold starts from: re-initialised whatever came before
InitFold(prev) == FreshParameters

\* the parameters a fold ends with: re-initialise, then train
FoldEnd(prev, w, epochs) == TrainParameters(InitFold(prev), w, epochs)

\* one fold: re-initialise, train on the training genes, score the validation genes
RunFold(f, prev, X, y, order, k, w, epochs) ==
    LET val == ValidationOf(f, order, k)
        end == FoldEnd(prev, w, epochs)
    IN  [fold |-> f, validation |-> val, training |-> TrainingOf(f, order, k),
         start |-> InitFold(prev), params |-> end,
         r2 |-> R2(Rows(y, val), [i \in DOMAIN val |-> Forward(end, X[val[i]])])]

\* the folds of `run` (a sequence of fold numbers), one after the other, each
\* handed the parameters the one before it left
RECURSIVE RunFolds(_, _, _, _, _, _, _, _)
RunFolds(run, prev, X, y, order, k, ws, epochs) ==
    IF run = <<>> THEN <<>>
    ELSE <<RunFold(Head(run), prev, X, y, order, k, ws[Head(run) + 1], epochs)>>
         \o RunFolds(Tail(run), FoldEnd(prev, ws[Head(run) + 1], epochs),
                     X, y, order, k, ws, epochs)

TooManyFolds_never(k, n) == FALSE

\* train_with_cv rejects more folds than genes
TooManyFolds(k, n) == k > n

\* the order the folds are run in
FoldRun(k, reversed) == [i \in 1 .. k |-> IF reversed THEN k - i ELSE i - 1]

\* what train_with_cv returns from its folds
CVResult(folds) ==
    LET per == [i \in DOMAIN folds |-> folds[i].r2]
    IN  [mean_r2 |-> FracMean(per), std_r2 |-> FracVar(per), per_fold_r2 |-> per]

(***************************************************************************)
(* InterpretationMethods (interpretation/methods.py), from section 4.3.    *)
(***************************************************************************)
\* g(x): the gradient of the forward pass with respect to each input position
Gradient(p, x) == [j \in DOMAIN x |-> p.w]

\* standard_gradients(X)
StandardGradients(m, X) == [i \in DOMAIN X |-> Gradient(m.params, X[i])]

\* saliency_gradients(X) = |g(x)|
SaliencyGradients(m, X) ==
    [i \in DOMAIN X |-> [j \in DOMAIN X[i] |-> Abs(Gradient(m.params, X[i])[j])]]

\* bpnet_contribution_scores(X) = g(x) * x
BPNetContributionScores(m, X) ==
    [i \in DOMAIN X |-> [j \in DOMAIN X[i] |-> Gradient(m.params, X[i])[j] * X[i][j]]]

\* the sum over the `steps` interpolation points of the gradient at position j;
\* the point x0 + (k/steps)(x - x0) is k * x / steps for the zero baseline
RECURSIVE GradientSum(_, _, _, _)
GradientSum(p, x, j, k) ==
    IF k = 0 THEN 0 ELSE Gradient(p, x)[j] + GradientSum(p, x, j, k - 1)

\* integrated_gradients_scores(X, steps) = (x - x0) * (1/steps) * sum of gradients
IntegratedGradientsScores(m, X, steps) ==
    [i \in DOMAIN X |->
        [j \in DOMAIN X[i] |-> (X[i][j] * GradientSum(m.params, X[i], j, steps)) \div steps]]

\* integrated gradients rejects steps < 1
StepsRejected(steps) == steps < 1

\* the preconditions an attribution call can reject; their order is not fixed
AttributionErrors(m, X, ig, steps) ==
    PredictErrors(m, X)
    \cup {ConfigurationError : e \in IF ig /\ StepsRejected(steps) THEN {1} ELSE {}}

(***************************************************************************)
(* ExpressionPipeline (pipeline/core.py).                                  *)
(***************************************************************************)
\* default_params of train_model
default_params ==
    [conv_filters |-> 32, lstm_units |-> 32, dense_units |-> 64, batch_size |-> 16]

\* the keys train_model hands to the constructor
ConstructorKeys ==
    {"conv_filters", "conv_kernel_size", "lstm_units", "dense_units", "dropout_rate"}

DefaultBatchSize == 16

\* kwargs.get('steps', 50)
DefaultSteps == 50

DefaultMethods_two == <<"bpnet", "saliency">>

\* compare_methods' methods when none are given
DefaultMethods == <<"bpnet", "saliency", "integrated_gradients">>

\* the algorithm interpret's if/elif chain produces the matrix with
Producer(method) ==
    IF method = "bpnet" THEN "bpnet"
    ELSE IF method = "saliency" THEN "saliency"
    ELSE IF method = "integrated_gradients" THEN "integrated_gradients"
    ELSE "gradients"

StepsOf_ignored(kwargs) == DefaultSteps

\* steps = kwargs.get('steps', 50)
StepsOf(kwargs) == DictGet(kwargs, "steps", DefaultSteps)

NoResult == [none |-> TRUE]

Call(op, args, outcome, result, calls) ==
    [op |-> op, args |-> args, outcome |-> outcome, result |-> result, calls |-> calls]

Init ==
    /\ data = None
    /\ model = None
    /\ interpreter = None
    /\ saved = None
    /\ saver = None
    /\ nextId = 0
    /\ everTrained = FALSE
    /\ everLoaded = FALSE
    /\ last = Call("__init__", EmptyDict, OK, NoResult, <<>>)

\* load_data(filepath): self.data is assigned once the loader has returned
load_data(filepath) ==
    /\ IF filepath \in DOMAIN DataFiles
       THEN /\ data' = DataFiles[filepath]
            /\ last' = Call("load_data", [filepath |-> filepath], OK,
                            DataFiles[filepath], <<>>)
       ELSE /\ data' = data
            /\ last' = Call("load_data", [filepath |-> filepath], FileNotFoundError,
                            NoResult, <<>>)
    /\ UNCHANGED <<model, interpreter, saved, saver, nextId, everTrained, everLoaded>>

\* the **model_params a caller passes to train_model
ModelParamChoices ==
    {EmptyDict,
     [conv_filters |-> 64, lstm_units |-> 64, batch_size |-> 32, verbose |-> 1]}

DataMissing_never == FALSE

\* `self.data is None`
DataMissing == data = None


\* train_model(use_cv, k_folds, epochs, **model_params); seed, ws and reversed are
\* the run's random draws: the shuffle seed, the weight each training run ends
\* at, and the order the folds are run in
train_model(use_cv, k_folds, epochs, model_params, seed, ws, reversed) ==
    LET args == [use_cv |-> use_cv, k_folds |-> k_folds, epochs |-> epochs,
                 model_params |-> model_params]
    IN
    IF DataMissing
    THEN /\ last' = Call("train_model", args, ValueError, NoResult, <<>>)
         /\ everTrained' = TRUE
         /\ UNCHANGED <<data, model, interpreter, saved, saver, nextId, everLoaded>>
    ELSE IF data = None
    THEN /\ last' = Call("train_model", args, "TypeError", NoResult, <<>>)
         /\ everTrained' = TRUE
         /\ UNCHANGED <<data, model, interpreter, saved, saver, nextId, everLoaded>>
    ELSE
      LET n_features == NFeatures(data)
          params == DictUpdate(default_params, model_params)
          kwargs == DictFilter(params, ConstructorKeys)
          m0 == ExpressionFactorNet(nextId + 1, n_features, kwargs)
          X == data.expression_features
          y == data.expression_targets
          batch_size == DictGet(params, "batch_size", DefaultBatchSize)
          built == [fn |-> "ExpressionFactorNet", n_features |-> n_features,
                    kwargs |-> kwargs]
          cvcall == [fn |-> "train_with_cv", k_folds |-> k_folds, epochs |-> epochs,
                     batch_size |-> batch_size]
          trcall == [fn |-> "train", epochs |-> epochs, batch_size |-> batch_size]
          folds == RunFolds(FoldRun(k_folds, reversed), m0.params, X, y,
                            Shuffle(seed, Len(X)), k_folds, ws, epochs)
          mcv == [m0 EXCEPT !.params = folds[Len(folds)].params]
          mtr == [m0 EXCEPT !.params = TrainParameters(m0.params, ws[1], epochs)]
      IN
      /\ nextId < MaxModels
      /\ nextId' = nextId + 1
      /\ everTrained' = TRUE
      /\ UNCHANGED <<data, saved, saver, everLoaded>>
      /\ IF use_cv
         THEN IF TooManyFolds(k_folds, Len(X))
              THEN /\ model' = m0
                   /\ interpreter' = interpreter
                   /\ last' = Call("train_model", args, ConfigurationError, NoResult,
                                   <<built, cvcall>>)
              ELSE /\ model' = mcv
                   /\ interpreter' = [model |-> mcv]
                   /\ last' = Call("train_model", args, OK,
                                   [cv |-> CVResult(folds), folds |-> folds],
                                   <<built, cvcall>>)
         ELSE /\ model' = mtr
              /\ interpreter' = [model |-> mtr]
              /\ last' = Call("train_model", args, OK,
                              [loss |-> TrainLoss(mtr.params, X, y)],
                              <<built, trcall>>)

\* the exceptions interpret(method, n_genes, **kwargs) can raise in the current
\* state, none when it returns
InterpretErrors(method, n_genes, kwargs) ==
    IF interpreter = None THEN {ValueError}
    ELSE LET n == Min(n_genes, NGenes(data))
             features == SliceTo(data.expression_features, n)
             att == AttributionErrors(interpreter.model, features,
                                      method = "integrated_gradients", StepsOf(kwargs))
         IN  IF att # {} THEN att ELSE PredictErrors(model, features)

Importance_saliencyRaw(method, features, kwargs) ==
    IF method = "bpnet" THEN BPNetContributionScores(interpreter.model, features)
    ELSE IF method = "integrated_gradients"
         THEN IntegratedGradientsScores(interpreter.model, features, StepsOf(kwargs))
    ELSE StandardGradients(interpreter.model, features)

Importance_bpnetRaw(method, features, kwargs) ==
    IF method = "saliency" THEN SaliencyGradients(interpreter.model, features)
    ELSE IF method = "integrated_gradients"
         THEN IntegratedGradientsScores(interpreter.model, features, StepsOf(kwargs))
    ELSE StandardGradients(interpreter.model, features)

\* the importance matrix of interpret's if/elif chain
Importance(method, features, kwargs) ==
    IF method = "bpnet" THEN BPNetContributionScores(interpreter.model, features)
    ELSE IF method = "saliency" THEN SaliencyGradients(interpreter.model, features)
    ELSE IF method = "integrated_gradients"
         THEN IntegratedGradientsScores(interpreter.model, features, StepsOf(kwargs))
    ELSE StandardGradients(interpreter.model, features)

\* the dict interpret returns
InterpretResult(method, n_genes, kwargs) ==
    LET n == Min(n_genes, NGenes(data))
        features == SliceTo(data.expression_features, n)
    IN  [method |-> method,
         feature_importance |-> Importance(method, features, kwargs),
         gene_names |-> SliceTo(data.gene_names, n),
         sample_names |-> data.sample_names,
         predictions |-> ModelPredict(model, features)]

\* the interpreter calls one interpret makes
InterpretCalls(method, kwargs) ==
    IF method = "integrated_gradients"
    THEN <<[fn |-> Producer(method), steps |-> StepsOf(kwargs)]>>
    ELSE <<[fn |-> Producer(method)]>>

\* interpret(method, n_genes, **kwargs)
interpret(method, n_genes, kwargs) ==
    LET args == [method |-> method, n_genes |-> n_genes, kwargs |-> kwargs]
        errs == InterpretErrors(method, n_genes, kwargs)
    IN
    /\ IF errs # {}
       THEN \E e \in errs :
              last' = Call("interpret", args, e, NoResult,
                           IF interpreter = None THEN <<>>
                           ELSE InterpretCalls(method, kwargs))
       ELSE last' = Call("interpret", args, OK,
                         InterpretResult(method, n_genes, kwargs),
                         InterpretCalls(method, kwargs))
    /\ UNCHANGED <<data, model, interpreter, saved, saver, nextId, everTrained, everLoaded>>

\* the methods of the list up to and including the first whose interpret raises
RECURSIVE Attempted(_, _)
Attempted(methods, n_genes) ==
    IF methods = <<>> THEN <<>>
    ELSE IF InterpretErrors(Head(methods), n_genes, EmptyDict) # {}
         THEN <<Head(methods)>>
         ELSE <<Head(methods)>> \o Attempted(Tail(methods), n_genes)

\* compare_methods(methods, n_genes): interpret for each method in turn
compare_methods(methods, n_genes) ==
    LET args == [methods |-> methods, n_genes |-> n_genes]
        list == IF methods = NotGiven THEN DefaultMethods ELSE methods.value
        tried == Attempted(list, n_genes)
        errs == IF tried = <<>> THEN {}
                ELSE InterpretErrors(tried[Len(tried)], n_genes, EmptyDict)
    IN
    /\ IF errs # {}
       THEN \E e \in errs : last' = Call("compare_methods", args, e, NoResult, tried)
       ELSE last' = Call("compare_methods", args, OK,
                         [m \in Range(list) |-> InterpretResult(m, n_genes, EmptyDict)],
                         tried)
    /\ UNCHANGED <<data, model, interpreter, saved, saver, nextId, everTrained, everLoaded>>

ModelMissing_data == data = None

\* `self.model is None`
ModelMissing == model = None

predict_storing(expression_features) ==
    LET args == [expression_features |-> expression_features]
        X == IF expression_features = NotGiven THEN data.expression_features
             ELSE expression_features.value
    IN
    IF model = None \/ PredictErrors(model, X) # {}
    THEN /\ \E e \in (IF model = None THEN {ValueError} ELSE PredictErrors(model, X)) :
              last' = Call("predict", args, e, NoResult, <<>>)
         /\ UNCHANGED <<data, model, interpreter, saved, saver, nextId, everTrained, everLoaded>>
    ELSE /\ last' = Call("predict", args, OK, ModelPredict(model, X), <<>>)
         /\ data' = [data EXCEPT !.expression_features = X]
         /\ UNCHANGED <<model, interpreter, saved, saver, nextId, everTrained, everLoaded>>

\* predict(expression_features)
predict(expression_features) ==
    LET args == [expression_features |-> expression_features]
        X == IF expression_features = NotGiven THEN data.expression_features
             ELSE expression_features.value
    IN
    /\ IF ModelMissing
       THEN last' = Call("predict", args, ValueError, NoResult, <<>>)
       ELSE IF model = None
       THEN last' = Call("predict", args, "AttributeError", NoResult, <<>>)
       ELSE IF PredictErrors(model, X) # {}
       THEN \E e \in PredictErrors(model, X) :
              last' = Call("predict", args, e, NoResult, <<>>)
       ELSE last' = Call("predict", args, OK, ModelPredict(model, X), <<>>)
    /\ UNCHANGED <<data, model, interpreter, saved, saver, nextId, everTrained, everLoaded>>

\* what interpret(method, n_genes) answers in the current state: the exceptions
\* it can raise, or the dict it returns
AnswerOfInterpret(method, n_genes) ==
    IF InterpretErrors(method, n_genes, EmptyDict) # {}
    THEN [raises |-> InterpretErrors(method, n_genes, EmptyDict)]
    ELSE [returns |-> InterpretResult(method, n_genes, EmptyDict)]

\* what predict() answers in the current state
AnswerOfPredict ==
    IF model = None THEN [raises |-> {ValueError}]
    ELSE IF PredictErrors(model, data.expression_features) # {}
    THEN [raises |-> PredictErrors(model, data.expression_features)]
    ELSE [returns |-> ModelPredict(model, data.expression_features)]

\* what the pipeline answers to interpret, for each method, and to predict
Answers ==
    [interpret |-> [m \in {"bpnet", "saliency", "integrated_gradients", "gradients"}
                      |-> AnswerOfInterpret(m, MaxG)],
     predict |-> AnswerOfPredict]

\* ExpressionPipeline(): another pipeline object, the files on disk staying
new_pipeline ==
    /\ data' = None
    /\ model' = None
    /\ interpreter' = None
    /\ everTrained' = FALSE
    /\ everLoaded' = FALSE
    /\ last' = Call("__init__", EmptyDict, OK, NoResult, <<>>)
    /\ UNCHANGED <<saved, saver, nextId>>

\* save_pipeline(filepath): the model file, then the pickled data
save_pipeline ==
    /\ IF model = None
       THEN /\ saved' = saved
            /\ saver' = saver
            /\ last' = Call("save_pipeline", EmptyDict, ValueError, NoResult, <<>>)
       ELSE /\ saved' = [params |-> model.params, data |-> data]
            /\ saver' = Answers
            /\ last' = Call("save_pipeline", EmptyDict, OK, NoResult, <<>>)
    /\ UNCHANGED <<data, model, interpreter, nextId, everTrained, everLoaded>>

\* load_pipeline(filepath)
load_pipeline ==
    IF saved = None
    THEN /\ last' = Call("load_pipeline", EmptyDict, FileNotFoundError, NoResult, <<>>)
         /\ UNCHANGED <<data, model, interpreter, saved, saver, nextId, everTrained, everLoaded>>
    ELSE LET n_features == NFeatures(saved.data)
             m == [ExpressionFactorNet(nextId + 1, n_features, EmptyDict)
                     EXCEPT !.params = saved.params]
         IN  /\ nextId < MaxModels
             /\ nextId' = nextId + 1
             /\ data' = saved.data
             /\ model' = m
             /\ interpreter' = [model |-> m]
             /\ everLoaded' = TRUE
             /\ last' = Call("load_pipeline", EmptyDict, OK, NoResult,
                             <<[fn |-> "ExpressionFactorNet", n_features |-> n_features,
                                kwargs |-> EmptyDict]>>)
             /\ UNCHANGED <<saved, saver, everTrained>>

\* what callers pass
Methods == {"bpnet", "saliency", "integrated_gradients", "gradients", "shap"}

GeneCounts == {0 - 1, 0, 1, MaxG}

StepsChoices == {[steps |-> 0], [steps |-> 2]}

MethodLists ==
    {NotGiven, Given(<<>>), Given(<<"bpnet", "saliency">>),
     Given(<<"gradients", "bpnet", "gradients">>)}

FeatureChoices == {NotGiven, Given(<<>>), Given(<< <<1, 1>> >>)}

\* train_model's defaults for k_folds and epochs
DefaultK == 5

DefaultEpochs == 50

\* train_model(use_cv=True, ...) with every draw of the harness
TrainCV ==
    \E k_folds \in 2 .. MaxK, seed \in Seeds, reversed \in BOOLEAN :
         \E ws \in [1 .. k_folds -> Weights] :
           train_model(TRUE, k_folds, DefaultEpochs, EmptyDict, seed, ws, reversed)

\* train_model(use_cv=True, ...), unshuffled, the folds in order and ending at
\* one weight
TrainCVPlain ==
    \E k_folds \in 2 .. MaxK, model_params \in ModelParamChoices, w \in Weights :
         train_model(TRUE, k_folds, DefaultEpochs, model_params, NoSeed,
                     [i \in 1 .. k_folds |-> w], FALSE)

\* train_model(use_cv=False, ...)
TrainPlain ==
    \E model_params \in ModelParamChoices, w \in Weights :
         train_model(FALSE, DefaultK, DefaultEpochs, model_params, NoSeed, <<w>>, FALSE)

LoadData == \E f \in FilePaths : load_data(f)

Interpret == \E method \in Methods, n_genes \in GeneCounts :
                 interpret(method, n_genes, EmptyDict)

InterpretSteps == \E kwargs \in StepsChoices :
                 interpret("integrated_gradients", MaxG, kwargs)

CompareMethods == \E methods \in MethodLists : compare_methods(methods, MaxG)

Predict == \E X \in FeatureChoices : predict(X)

\* the pipeline under every sequence of calls
Next ==
    \/ LoadData
    \/ TrainCVPlain
    \/ TrainPlain
    \/ Interpret
    \/ InterpretSteps
    \/ CompareMethods
    \/ Predict
    \/ save_pipeline
    \/ load_pipeline
    \/ new_pipeline

Spec == Init /\ [][Next]_vars

\* loading and training only, with every draw of the cross-validation harness
NextCV ==
    \/ LoadData
    \/ TrainCV

SpecCV == Init /\ [][NextCV]_vars

\* the keyword arguments of the routing runs: none, Example 4's, and two keys
\* train_model has no default for
RoutedParamChoices ==
    ModelParamChoices \cup {[conv_kernel_size |-> 5, dense_units |-> 128]}

\* Example 4's epochs and the default
EpochChoices == {30, DefaultEpochs}

\* train_model with every combination of its own arguments, the training run
\* ending at one weight
TrainRouted ==
    \E use_cv \in BOOLEAN, k_folds \in 2 .. MaxK, epochs \in EpochChoices,
       model_params \in RoutedParamChoices, w \in Weights :
         train_model(use_cv, k_folds, epochs, model_params, NoSeed,
                     [i \in 1 .. k_folds |-> w], FALSE)

\* loading and training only, with every combination of train_model's arguments
NextRoute ==
    \/ LoadData
    \/ TrainRouted

SpecRoute == Init /\ [][NextRoute]_vars

(***************************************************************************)
(* Properties.                                                             *)
(***************************************************************************)
QueryOps == {"predict", "interpret", "compare_methods"}

\* the last call was compare_methods over an empty list of methods
EmptyComparison ==
    /\ last.op = "compare_methods"
    /\ last.args.methods = Given(<<>>)

\* the last call was a cross-validated train_model that returned
CVReturned ==
    /\ last.op = "train_model"
    /\ last.outcome = OK
    /\ last.args.use_cv

\* the targets of the validation genes of a recorded fold
ValidationTargets(fold) == Rows(data.expression_targets, fold.validation)

\* C1 as stated: before any training call, predict and every interpretation
\* method raise ModelNotTrainedError and return nothing.
C1_RaisesModelNotTrainedError ==
    (last.op \in QueryOps /\ ~everTrained)
        => (last.outcome = ModelNotTrainedError /\ last.result = NoResult)

\* C1 amended: on a pipeline on which neither a training call nor
\* load_pipeline has run, predict, interpret with any method, and
\* compare_methods over at least one method raise ValueError and return nothing.
\* compare_methods over no method at all returns an empty dictionary.
C1_UntrainedRejected ==
    (last.op \in QueryOps /\ ~everTrained /\ ~everLoaded)
        => IF EmptyComparison
           THEN last.outcome = OK /\ DOMAIN last.result = {}
           ELSE last.outcome = ValueError /\ last.result = NoResult

C1_Witness ==
    /\ last.op = "interpret"
    /\ last.outcome = ValueError
    /\ data # None
    /\ ~everTrained
    /\ ~everLoaded

\* C2: a training call that fails leaves the pipeline's model, interpreter and
\* data as they were before the call.
C2_FailedTrainingLeavesNoTrace ==
    [][(last'.op = "train_model" /\ last'.outcome # OK)
          => (model' = model /\ interpreter' = interpreter /\ data' = data)]_vars

\* C3: over n >= k >= 2 genes and for every seed, every gene is in the
\* validation set of exactly one of the k folds, once, and each fold's training
\* set is disjoint from its validation set.
C3_FoldsPartitionGenes ==
    CVReturned =>
        LET folds == last.result.folds
            n == NGenes(data)
        IN  /\ Len(folds) = last.args.k_folds
            /\ \A g \in 1 .. n :
                 Cardinality({<<i, j>> \in (DOMAIN folds) \X (1 .. n) :
                                 /\ j \in DOMAIN folds[i].validation
                                 /\ folds[i].validation[j] = g}) = 1
            /\ \A i \in DOMAIN folds :
                 /\ Range(folds[i].validation) \subseteq 1 .. n
                 /\ Range(folds[i].validation) \cap Range(folds[i].training) = {}

C3_Witness ==
    /\ CVReturned
    /\ NGenes(data) = 4
    /\ last.args.k_folds = 3
    /\ \E i \in DOMAIN last.result.folds :
         /\ last.result.folds[i].fold = 0
         /\ last.result.folds[i].validation = <<4, 1>>

\* C4: every fold of train_with_cv starts from freshly initialised parameters
\* and ends with the updates of its own training only, in whatever order the
\* folds are run.
C4_FoldsStartFresh ==
    CVReturned =>
        \A i \in DOMAIN last.result.folds :
            /\ last.result.folds[i].start = FreshParameters
            /\ last.result.folds[i].params.updates = last.args.epochs

C4_Witness ==
    /\ CVReturned
    /\ Len(last.result.folds) = 3
    /\ last.result.folds[1].fold = 2
    /\ last.result.folds[3].fold = 0
    /\ last.result.folds[1].params # last.result.folds[3].params

\* C5: cross-validated training asked for more folds than there are genes
\* fails with ConfigurationError before any fold is trained.
C5_TooManyFoldsRejected ==
    (/\ last.op = "train_model"
     /\ data # None
     /\ last.args.use_cv
     /\ last.args.k_folds > NGenes(data))
        => /\ last.outcome = ConfigurationError
           /\ last.result = NoResult
           /\ model # None
           /\ model.params = FreshParameters

C5_Witness ==
    /\ last.op = "train_model"
    /\ last.outcome = ConfigurationError
    /\ last.args.k_folds = 3
    /\ data # None
    /\ NGenes(data) = 2

\* C6: interpret, compare_methods and predict leave the model with its
\* parameters, the interpreter and the loaded data as they were.
C6_QueriesChangeNothing ==
    [][(last'.op \in QueryOps)
          => (model' = model /\ interpreter' = interpreter /\ data' = data
              /\ saved' = saved)]_vars

C6_Witness ==
    /\ last.op = "predict"
    /\ last.outcome = OK
    /\ last.args.expression_features # NotGiven
    /\ last.args.expression_features.value # data.expression_features

\* C7: interpret with n_genes = g >= 0 on N genes of n_features samples returns
\* an importance matrix of min(g, N) rows and n_features columns, and gene names
\* and predictions for the same first min(g, N) genes, for every method.
C7_ResultHasBatchShape ==
    (last.op = "interpret" /\ last.outcome = OK /\ last.args.n_genes >= 0)
        => LET r == last.result
               m == Min(last.args.n_genes, NGenes(data))
           IN  /\ Len(r.feature_importance) = m
               /\ \A i \in 1 .. m : Len(r.feature_importance[i]) = NFeatures(data)
               /\ r.gene_names = SubSeq(data.gene_names, 1, m)
               /\ Len(r.predictions) = m

C7_Witness ==
    /\ last.op = "interpret"
    /\ last.outcome = OK
    /\ last.args.method = "integrated_gradients"
    /\ last.args.n_genes = 1
    /\ NGenes(data) = 4
    /\ Len(last.result.feature_importance) = 1

\* C8: the 'method' field of an interpret result names the algorithm that
\* produced its feature_importance, whatever method string was passed.
C8_TagNamesProducer ==
    (last.op = "interpret" /\ last.outcome = OK)
        => last.result.method = last.calls[1].fn

\* C9: integrated gradients with steps < 1 fails with ConfigurationError and
\* returns nothing (on a pipeline whose interpreter accepts the batch, so that
\* steps is all that is wrong); without steps, 50 is used.
C9_StepsChecked ==
    (last.op = "interpret" /\ last.args.method = "integrated_gradients"
     /\ interpreter # None)
        => LET kwargs == last.args.kwargs
               features == SliceTo(data.expression_features,
                                   Min(last.args.n_genes, NGenes(data)))
           IN  /\ ("steps" \notin DOMAIN kwargs) => last.calls[1].steps = 50
               /\ ("steps" \in DOMAIN kwargs) => last.calls[1].steps = kwargs.steps
               /\ ("steps" \in DOMAIN kwargs /\ kwargs.steps < 1)
                     => /\ last.outcome # OK
                        /\ last.result = NoResult
                        /\ (PredictErrors(interpreter.model, features) = {})
                              => last.outcome = ConfigurationError

C9_Witness ==
    /\ last.op = "interpret"
    /\ last.args.method = "integrated_gradients"
    /\ "steps" \in DOMAIN last.args.kwargs
    /\ last.args.kwargs.steps = 0
    /\ last.outcome = ConfigurationError
    /\ interpreter # None
    /\ interpreter.model = model
    /\ NFeatures(data) = model.n_features

\* C10: a fold whose validation targets are all equal gets R2 = 0.0 exactly,
\* and the run still returns a finite mean_r2 and std_r2 and one R2 per fold.
C10_ConstantTargetsGiveZero ==
    CVReturned =>
        LET folds == last.result.folds
            cv == last.result.cv
        IN  /\ \A i \in DOMAIN folds :
                 (SStot(ValidationTargets(folds[i])) = 0) => folds[i].r2 = Zero
            /\ Len(cv.per_fold_r2) = last.args.k_folds
            /\ \A i \in DOMAIN folds :
                 cv.per_fold_r2[i] = folds[i].r2 /\ cv.per_fold_r2[i].finite
            /\ cv.mean_r2.finite
            /\ cv.std_r2.finite

C10_Witness ==
    /\ CVReturned
    /\ \E i, j \in DOMAIN last.result.folds :
         /\ Len(last.result.folds[i].validation) = 2
         /\ SStot(ValidationTargets(last.result.folds[i])) = 0
         /\ last.result.folds[i].r2 = Zero
         /\ SStot(ValidationTargets(last.result.folds[j])) # 0
         /\ last.result.folds[j].r2 # Zero

\* the batch interpret hands to the interpreter in the last call
QueriedFeatures ==
    SliceTo(data.expression_features, Min(last.args.n_genes, NGenes(data)))

\* C11: the saliency matrix is the element-wise absolute value of the
\* standard-gradients matrix of the same model on the same batch, so none of
\* its entries is negative.
C11_SaliencyIsAbsGradient ==
    (last.op = "interpret" /\ last.outcome = OK /\ last.args.method = "saliency")
        => LET g == StandardGradients(interpreter.model, QueriedFeatures)
               s == last.result.feature_importance
           IN  /\ DOMAIN s = DOMAIN g
               /\ \A i \in DOMAIN g :
                    /\ DOMAIN s[i] = DOMAIN g[i]
                    /\ \A j \in DOMAIN g[i] :
                         /\ s[i][j] = (IF g[i][j] < 0 THEN 0 - g[i][j] ELSE g[i][j])
                         /\ s[i][j] >= 0

C11_Witness ==
    /\ last.op = "interpret"
    /\ last.outcome = OK
    /\ last.args.method = "saliency"
    /\ Len(last.result.feature_importance) = 3
    /\ StandardGradients(interpreter.model, QueriedFeatures)[1][1] < 0
    /\ last.result.feature_importance[1][1] > 0

\* C12: the BPNet contribution matrix is the element-wise product of the
\* standard-gradients matrix with the batch itself, so a position whose input
\* is 0 has contribution 0.
C12_BPNetIsGradientTimesInput ==
    (last.op = "interpret" /\ last.outcome = OK /\ last.args.method = "bpnet")
        => LET g == StandardGradients(interpreter.model, QueriedFeatures)
               c == last.result.feature_importance
           IN  /\ DOMAIN c = DOMAIN g
               /\ \A i \in DOMAIN g :
                    /\ DOMAIN c[i] = DOMAIN g[i]
                    /\ \A j \in DOMAIN g[i] :
                         /\ c[i][j] = g[i][j] * QueriedFeatures[i][j]
                         /\ (QueriedFeatures[i][j] = 0) => c[i][j] = 0

C12_Witness ==
    /\ last.op = "interpret"
    /\ last.outcome = OK
    /\ last.args.method = "bpnet"
    /\ Len(last.result.feature_importance) = 2
    /\ QueriedFeatures[2] = <<0, 2>>
    /\ last.result.feature_importance[2] = <<0, 0 - 2>>

\* C13: train_model on a pipeline with no loaded data raises at once, before
\* any model is built, and leaves model, interpreter and data unset, so an
\* interpret or predict on that pipeline is still rejected.
C13_TrainWithoutDataRejected ==
    [][(data = None) =>
          /\ (last'.op = "train_model") =>
                /\ last'.outcome = ValueError
                /\ last'.result = NoResult
                /\ last'.calls = <<>>
                /\ nextId' = nextId
                /\ model = None /\ interpreter = None
                /\ model' = None /\ interpreter' = None /\ data' = None
          /\ (last'.op \in {"interpret", "predict"}) =>
                /\ last'.outcome = ValueError
                /\ last'.result = NoResult]_vars

C13_Witness ==
    /\ everTrained
    /\ data = None /\ model = None /\ interpreter = None
    /\ last.op = "interpret"
    /\ last.outcome = ValueError

\* C14: train_model builds the model with the loaded data's n_features and
\* only the keys conv_filters, conv_kernel_size, lstm_units, dense_units and
\* dropout_rate, the caller's value overriding the defaults 32/32/64; batch_size
\* (default 16, caller's value first) goes with epochs to the training call and
\* never to the constructor; the one training call is train_with_cv with
\* k_folds when use_cv is true and train otherwise.
C14_OptionsRouted ==
    (last.op = "train_model" /\ data # None)
        => LET mp == last.args.model_params
               defaults == [conv_filters |-> 32, lstm_units |-> 32, dense_units |-> 64]
           IN  /\ Len(last.calls) = 2
               /\ last.calls[1].fn = "ExpressionFactorNet"
               /\ last.calls[1].n_features = NFeatures(data)
               /\ model.n_features = NFeatures(data)
               /\ model.hyper = last.calls[1].kwargs
               /\ DOMAIN last.calls[1].kwargs =
                     ((DOMAIN defaults) \cup (DOMAIN mp))
                        \cap {"conv_filters", "conv_kernel_size", "lstm_units",
                              "dense_units", "dropout_rate"}
               /\ \A k \in DOMAIN last.calls[1].kwargs :
                     last.calls[1].kwargs[k] =
                        (IF k \in DOMAIN mp THEN mp[k] ELSE defaults[k])
               /\ last.calls[2].fn =
                     (IF last.args.use_cv THEN "train_with_cv" ELSE "train")
               /\ last.calls[2].epochs = last.args.epochs
               /\ last.calls[2].batch_size =
                     (IF "batch_size" \in DOMAIN mp THEN mp.batch_size ELSE 16)
               /\ IF last.args.use_cv
                  THEN last.calls[2].k_folds = last.args.k_folds
                  ELSE "k_folds" \notin DOMAIN last.calls[2]

C14_Witness ==
    /\ last.op = "train_model"
    /\ last.outcome = OK
    /\ last.args.use_cv
    /\ last.args.model_params =
          [conv_filters |-> 64, lstm_units |-> 64, batch_size |-> 32, verbose |-> 1]
    /\ last.calls =
          <<[fn |-> "ExpressionFactorNet", n_features |-> 3,
             kwargs |-> [conv_filters |-> 64, lstm_units |-> 64, dense_units |-> 64]],
            [fn |-> "train_with_cv", k_folds |-> 3, epochs |-> 30, batch_size |-> 32]>>

\* the dictionary a returning compare_methods owes its caller: one entry for
\* each distinct requested method, the entry being what interpret returns for it
ComparisonAsRequested ==
    LET requested == IF last.args.methods = NotGiven
                     THEN {"bpnet", "saliency", "integrated_gradients"}
                     ELSE Range(last.args.methods.value)
        n == Min(last.args.n_genes, NGenes(data))
    IN  /\ DOMAIN last.result = requested
        /\ \A m \in requested :
             /\ last.result[m] = InterpretResult(m, last.args.n_genes, EmptyDict)
             /\ last.result[m].method = m
             /\ last.result[m].gene_names = SliceTo(data.gene_names, n)
             /\ Len(last.result[m].feature_importance) = n

\* C15 as stated: on a pipeline with no interpreter every compare_methods call
\* raises interpret's error and returns no dictionary; a returning call gives
\* one entry for each distinct requested method.
C15_ComparisonPerMethod ==
    (last.op = "compare_methods")
        => IF interpreter = None
           THEN last.outcome = ValueError /\ last.result = NoResult
           ELSE (last.outcome = OK) => ComparisonAsRequested

\* C15: a returning compare_methods gives one entry for each distinct requested
\* method, the entry under m being interpret(m, n_genes) with tag m and all
\* entries over the same genes; with methods omitted the keys are bpnet,
\* saliency and integrated_gradients. On a pipeline with no interpreter a call
\* over at least one method raises interpret's ValueError and returns nothing,
\* and a call over an empty list returns the empty dictionary.
C15_ComparisonPerMethodUnlessEmpty ==
    (last.op = "compare_methods")
        => IF interpreter = None /\ ~EmptyComparison
           THEN last.outcome = ValueError /\ last.result = NoResult
           ELSE (last.outcome = OK) => ComparisonAsRequested

C15_Witness ==
    /\ last.op = "compare_methods"
    /\ last.outcome = OK
    /\ last.args.methods = Given(<<"gradients", "bpnet", "gradients">>)
    /\ DOMAIN last.result = {"gradients", "bpnet"}
    /\ last.result["bpnet"].method = "bpnet"
    /\ Len(last.result["bpnet"].gene_names) = 3
    /\ Len(last.result["gradients"].gene_names) = 3

\* a pipeline object as its constructor leaves it
FreshPipeline == data = None /\ model = None /\ interpreter = None

\* C16: load_pipeline on a fresh pipeline, after a save_pipeline of the same
\* path, gives a pipeline whose data is the saved data, whose model has the
\* saved data's n_features and the saved parameters and whose interpreter is
\* set, and which answers interpret and predict as the saving pipeline did;
\* save_pipeline on a pipeline with no model raises and writes nothing.
C16_LoadRestoresSavingPipeline ==
    [][/\ (FreshPipeline /\ last'.op = "load_pipeline" /\ last'.outcome = OK) =>
             /\ data' = saved.data
             /\ model'.n_features = NFeatures(saved.data)
             /\ model'.params = saved.params
             /\ interpreter' = [model |-> model']
             /\ Answers' = saver
       /\ (model = None /\ last'.op = "save_pipeline") =>
             /\ last'.outcome = ValueError
             /\ saved' = saved]_vars

\* C16 for a saving pipeline that itself answered interpret and predict when
\* it saved: the loaded pipeline answers as it did.
C16_LoadRestoresWorkingPipeline ==
    [][/\ (/\ FreshPipeline /\ last'.op = "load_pipeline" /\ last'.outcome = OK
           /\ "returns" \in DOMAIN saver.predict
           /\ "returns" \in DOMAIN saver.interpret["bpnet"]) =>
             /\ data' = saved.data
             /\ model'.n_features = NFeatures(saved.data)
             /\ model'.params = saved.params
             /\ interpreter' = [model |-> model']
             /\ Answers' = saver
       /\ (model = None /\ last'.op = "save_pipeline") =>
             /\ last'.outcome = ValueError
             /\ saved' = saved]_vars

\* C17: whenever the interpreter is set, data and model are set and the
\* interpreter wraps the pipeline's current model, so the feature_importance
\* and the predictions of one interpret result come from the same model.
C17_InterpreterWrapsCurrentModel ==
    (interpreter # None)
        => /\ data # None
           /\ model # None
           /\ interpreter.model = model

\* C18: whenever model and data are both set, the model's n_features is the
\* n_features of the data now loaded, also after load_data is called again on
\* a trained pipeline.
C18_ModelWidthMatchesData ==
    (model # None /\ data # None)
        => model.n_features = NFeatures(data)

====
